---- MODULE Spec2Model ----
(***************************************************************************)
(* Model of the vein-detection core of ControlCamera (yolo_detector.py):   *)
(* the detection post-processing of VeinProcessor (_apply_nms and          *)
(* _calculate_iou), the frame enhancement of VeinProcessor.process_frame,  *)
(* and the detector entry points (VeinDetector.detect,                     *)
(* initialize_detector, detect_veins).                                     *)
(*                                                                         *)
(* Each component is a specification of its own over the same variables:   *)
(* SpecNms, SpecIou, SpecFrame, SpecDetect, SpecContrast, SpecRidge and    *)
(* SpecConfig (config_manager.py and the parameters a VeinProcessor takes  *)
(* from it).  The variables a specification does not use keep their idle   *)
(* values.                                                                 *)
(***************************************************************************)
EXTENDS Integers, Sequences, FiniteSets

VARIABLES
    pc,           \* position of the running call
    nmsInput,     \* _apply_nms: the list passed as `detections`
    iouThreshold, \* _apply_nms: iou_threshold, a rational <<num, den>>
    detections,   \* _apply_nms: the local list `detections` after the sort
    keep,         \* _apply_nms: the local list `keep`; the return value when done
    pass,         \* 1: first application, 2: application to the first output
    firstOutput,  \* the list returned by the first application
    box1,         \* _calculate_iou: first argument
    box2,         \* _calculate_iou: second argument
    iouResult,    \* _calculate_iou: return value, a rational <<num, den>>
    frame,        \* process_frame: the frame passed in
    params,       \* the 'enabled' flags of clahe_config and filters_config
    skimage,      \* SKIMAGE_AVAILABLE
    fails,        \* the library calls that raise during this call
    gray,         \* process_frame: the local buffer `gray`
    raisedIn,     \* the calls that have raised so far in this call
    enhanced,     \* process_frame: what the call returned
    detector,     \* the global _detector
    confidenceConfig, \* get_config('model.confidence_threshold', 0.5)
    call,         \* the arguments of the running detection call and what the
                  \* model does in it
    ret,          \* what the last detector call returned or raised
    pixel,        \* contrast stage: one 8-bit value of `gray` before the stage
    contrast_config, \* filters_config.get('contrast', {})
    dst,          \* contrast stage: the value of that pixel after the stage
    scaleOutcomes, \* _hessian_vessel_enhancement: per sigma, what frangi
                  \* and the Laplacian give on the image
    build,        \* how the build casts a float outside 0..255 to uint8
    ridgeS,       \* the 8-bit response returned for the sigma set S
    ridgeExtended, \* the 8-bit response returned for S and one more sigma
    heap,         \* the dict objects alive, by identity
    configRoot,   \* ConfigManager._config: the identity of a dict, or NoDict
    processors    \* the VeinProcessor objects constructed, in order

vars == <<pc, nmsInput, iouThreshold, detections, keep, pass, firstOutput,
          box1, box2, iouResult, frame, params, skimage, fails, gray,
          raisedIn, enhanced,
          detector, confidenceConfig, call, ret,
          pixel, contrast_config, dst,
          scaleOutcomes, build, ridgeS, ridgeExtended,
          heap, configRoot, processors>>

nmsVars == <<nmsInput, iouThreshold, detections, keep, pass, firstOutput>>
iouVars == <<box1, box2, iouResult>>
frameVars == <<frame, params, skimage, fails, gray, raisedIn, enhanced>>
detectVars == <<detector, confidenceConfig, call, ret>>
contrastVars == <<pixel, contrast_config, dst>>
ridgeVars == <<scaleOutcomes, build, ridgeS, ridgeExtended>>
configVars == <<heap, configRoot, processors>>

----------------------------------------------------------------------------
(* Bounds of the input domains.                                            *)

\* boxes lie at x, y in 0..MaxCoord
MaxCoord == 1
\* boxes have width and height in 0..MaxSide
MaxSide == 2
\* confidences are the levels 1..MaxConf (only their order matters)
MaxConf == 2
\* _apply_nms is given lists of at most MaxLen detections
MaxLen == 3

\* frames have height and width in 0..MaxDim
MaxDim == 2
\* 3-D frames have 1..MaxChannels channels
MaxChannels == 4
\* at most MaxFails library calls raise during one call of process_frame
MaxFails == 2

\* the model returns at most MaxRaw boxes
MaxRaw == 2
\* box corners of the model are multiples of 1/CoordScale pixel
CoordScale == 2

\* the largest value of an 8-bit pixel
MaxPixel == 255
\* alpha is a multiple of 1/AlphaScale (the default 1.8 is 9/5) ...
AlphaScale == 5
\* ... with numerator in -MaxAlpha..MaxAlpha
MaxAlpha == 10
\* beta is an integer in -MaxBeta..MaxBeta (the default is 10)
MaxBeta == 10

\* the ridge response is followed on the pixels 1..MaxArea of the image
MaxArea == 2
\* the sigma set S has at most MaxSigmas values
MaxSigmas == 2
\* frangi responses are the multiples of 1/FrangiScale in [0, 1]
FrangiScale == 2
\* the Laplacian of a blurred image has values in -MaxLap..MaxLap
MaxLap == 2

\* at most MaxProcs VeinProcessor objects are constructed
MaxProcs == 2

\* Python's None; also the value of a result no call has produced yet.
None == "None"

Min(a, b) == IF a <= b THEN a ELSE b
Max(a, b) == IF a >= b THEN a ELSE b

\* Rationals <<num, den>> with den > 0 stand for the floats the code computes.
RatLess(p, q) == p[1] * q[2] < q[1] * p[2]
RatEq(p, q) == p[1] * q[2] = q[1] * p[2]

\* Boxes in (x, y, w, h) form; zero and negative widths and heights, which
\* the corner-form conversion can produce, are included.
Boxes ==
    {<<x, y, w, h>> : x \in 0..MaxCoord, y \in 0..MaxCoord,
                      w \in (0 - 1)..MaxSide, h \in (0 - 1)..MaxSide}

\* The boxes _apply_nms is exercised on: positive-area boxes on one row.
\* Their IoUs take the values 0, 1/3, 1/2 and 1 (and more with larger bounds).
NmsBoxes == {b \in Boxes : b[2] = 0 /\ b[4] = 1 /\ b[3] >= 1}

\* iou_threshold values: the default 0.4 and 1/3, which some pairs hit exactly.
IouThresholds == {<<2, 5>>, <<1, 3>>}

Confidences == 1..MaxConf

\* The frame argument None, written as a buffer without shape.
NoFrame == [shape |-> <<>>, data |-> <<>>]

\* _detector = None, written as a detector record that does not exist.
NoDetector == [exists |-> FALSE, model |-> FALSE, class_names |-> <<>>]

\* No detection call is running.
NoCall == [conf_threshold |-> 0]

\* The values of the variables of a component that is not running.
IdleNms ==
    /\ nmsInput = <<>> /\ iouThreshold = <<2, 5>> /\ detections = <<>>
    /\ keep = <<>> /\ pass = 1 /\ firstOutput = <<>>
IdleIou == box1 = None /\ box2 = None /\ iouResult = None
IdleFrame ==
    /\ frame = NoFrame /\ skimage = FALSE
    /\ params = [clahe |-> TRUE, bilateral |-> TRUE, contrast |-> TRUE]
    /\ fails = {} /\ gray = NoFrame /\ raisedIn = {} /\ enhanced = None
IdleContrast ==
    /\ pixel = 0 /\ dst = None
    /\ contrast_config = [enabled |-> TRUE, alpha |-> 9, beta |-> 10]
IdleRidge ==
    /\ scaleOutcomes = <<>> /\ build = "wrap"
    /\ ridgeS = <<>> /\ ridgeExtended = <<>>
IdleConfig == heap = <<>> /\ configRoot = 0 /\ processors = <<>>
IdleDetect ==
    /\ detector = NoDetector /\ confidenceConfig = 1
    /\ call = NoCall /\ ret = None

----------------------------------------------------------------------------
(* VeinProcessor._calculate_iou                                            *)

CalculateIouSwappedUnion(b1, b2) ==
    LET x2_1 == b1[1] + b1[3]
        y2_1 == b1[2] + b1[4]
        x2_2 == b2[1] + b2[3]
        y2_2 == b2[2] + b2[4]
        inter_x1 == Max(b1[1], b2[1])
        inter_y1 == Max(b1[2], b2[2])
        inter_x2 == Min(x2_1, x2_2)
        inter_y2 == Min(y2_1, y2_2)
        inter_area == (inter_x2 - inter_x1) * (inter_y2 - inter_y1)
        area1 == b1[3] * b1[4]
        union_area == area1 + area1 - inter_area
    IN  IF inter_x2 <= inter_x1 \/ inter_y2 <= inter_y1
        THEN <<0, 1>>
        ELSE IF union_area > 0 THEN <<inter_area, union_area>> ELSE <<0, 1>>

\* The early return taken only when both intersection dimensions are
\* non-positive (`and` for `or`).
CalculateIouBothNonPositive(b1, b2) ==
    LET x2_1 == b1[1] + b1[3]
        y2_1 == b1[2] + b1[4]
        x2_2 == b2[1] + b2[3]
        y2_2 == b2[2] + b2[4]
        inter_x1 == Max(b1[1], b2[1])
        inter_y1 == Max(b1[2], b2[2])
        inter_x2 == Min(x2_1, x2_2)
        inter_y2 == Min(y2_1, y2_2)
        inter_area == (inter_x2 - inter_x1) * (inter_y2 - inter_y1)
        area1 == b1[3] * b1[4]
        area2 == b2[3] * b2[4]
        union_area == area1 + area2 - inter_area
    IN  IF inter_x2 <= inter_x1 /\ inter_y2 <= inter_y1
        THEN <<0, 1>>
        ELSE IF union_area > 0 THEN <<inter_area, union_area>> ELSE <<0, 1>>

CalculateIou(b1, b2) ==
    LET x2_1 == b1[1] + b1[3]
        y2_1 == b1[2] + b1[4]
        x2_2 == b2[1] + b2[3]
        y2_2 == b2[2] + b2[4]
        inter_x1 == Max(b1[1], b2[1])
        inter_y1 == Max(b1[2], b2[2])
        inter_x2 == Min(x2_1, x2_2)
        inter_y2 == Min(y2_1, y2_2)
        inter_area == (inter_x2 - inter_x1) * (inter_y2 - inter_y1)
        area1 == b1[3] * b1[4]
        area2 == b2[3] * b2[4]
        union_area == area1 + area2 - inter_area
    IN  IF inter_x2 <= inter_x1 \/ inter_y2 <= inter_y1
        THEN <<0, 1>>
        ELSE IF union_area > 0 THEN <<inter_area, union_area>> ELSE <<0, 1>>

----------------------------------------------------------------------------
(* VeinProcessor._apply_nms                                                *)

\* A detection: the dict's 'box' and 'confidence', and `id`, the identity of
\* the dict object (its position in the list first passed in).
Detection(b, c, i) == [box |-> b, confidence |-> c, id |-> i]

RECURSIVE InsertByConfidence(_, _)
\* d goes behind every entry of confidence >= its own: ties keep their order.
InsertByConfidence(s, d) ==
    IF s = <<>> THEN <<d>>
    ELSE IF Head(s).confidence >= d.confidence
         THEN <<Head(s)>> \o InsertByConfidence(Tail(s), d)
         ELSE <<d>> \o s

RECURSIVE InsertBeforeTies(_, _)
\* d goes in front of the entries of its own confidence: ties are reversed.
InsertBeforeTies(s, d) ==
    IF s = <<>> THEN <<d>>
    ELSE IF Head(s).confidence > d.confidence
         THEN <<Head(s)>> \o InsertBeforeTies(Tail(s), d)
         ELSE <<d>> \o s

RECURSIVE SortedReversingTies(_)
SortedReversingTies(s) ==
    IF s = <<>> THEN <<>>
    ELSE InsertBeforeTies(SortedReversingTies(SubSeq(s, 1, Len(s) - 1)), s[Len(s)])

RECURSIVE SortedAscending(_)
\* The sort without reverse=True.
SortedAscending(s) ==
    IF s = <<>> THEN <<>>
    ELSE LET r == SortedAscending(SubSeq(s, 1, Len(s) - 1))
             d == s[Len(s)]
             n == Cardinality({i \in 1..Len(r) : r[i].confidence <= d.confidence})
         IN  SubSeq(r, 1, n) \o <<d>> \o SubSeq(r, n + 1, Len(r))

RECURSIVE SortedByConfidence(_)
\* sorted(detections, key=confidence, reverse=True): descending and stable.
SortedByConfidence(s) ==
    IF s = <<>> THEN <<>>
    ELSE InsertByConfidence(SortedByConfidence(SubSeq(s, 1, Len(s) - 1)), s[Len(s)])

RECURSIVE RemainingKeepingEqual(_, _, _)
RemainingKeepingEqual(best, dets, thr) ==
    IF dets = <<>> THEN <<>>
    ELSE LET iou == CalculateIou(best.box, Head(dets).box)
             rest == RemainingKeepingEqual(best, Tail(dets), thr)
         IN  IF ~RatLess(thr, iou) THEN <<Head(dets)>> \o rest ELSE rest

RECURSIVE Remaining(_, _, _)
\* The inner for loop: the detections whose IoU with best is < iou_threshold.
Remaining(best, dets, thr) ==
    IF dets = <<>> THEN <<>>
    ELSE LET iou == CalculateIou(best.box, Head(dets).box)
             rest == Remaining(best, Tail(dets), thr)
         IN  IF RatLess(iou, thr) THEN <<Head(dets)>> \o rest ELSE rest

\* Entry of _apply_nms: the empty-list return, else the sort.
NmsEnter ==
    /\ pc = "nms_call"
    /\ IF nmsInput = <<>>
       THEN /\ keep' = <<>>
            /\ detections' = <<>>
            /\ pc' = "nms_done"
       ELSE /\ detections' = SortedByConfidence(nmsInput)
            /\ keep' = <<>>
            /\ pc' = "nms_loop"
    /\ UNCHANGED <<nmsInput, iouThreshold, pass, firstOutput>>
    /\ UNCHANGED <<iouVars, frameVars, detectVars, contrastVars, ridgeVars, configVars>>

\* keep.append(best) repeated inside the for loop over the other detections.
NmsIterateAppendInLoop ==
    /\ pc = "nms_loop"
    /\ detections # <<>>
    /\ LET best == Head(detections)
       IN  /\ keep' = Append(keep, best)
                        \o [i \in 1..Len(Tail(detections)) |-> best]
           /\ detections' = Remaining(best, Tail(detections), iouThreshold)
    /\ UNCHANGED <<pc, nmsInput, iouThreshold, pass, firstOutput>>
    /\ UNCHANGED <<iouVars, frameVars, detectVars, contrastVars, ridgeVars, configVars>>

\* One iteration of `while detections:`.
NmsIterate ==
    /\ pc = "nms_loop"
    /\ detections # <<>>
    /\ LET best == Head(detections)
       IN  /\ keep' = Append(keep, best)
           /\ detections' = Remaining(best, Tail(detections), iouThreshold)
    /\ UNCHANGED <<pc, nmsInput, iouThreshold, pass, firstOutput>>
    /\ UNCHANGED <<iouVars, frameVars, detectVars, contrastVars, ridgeVars, configVars>>

\* The loop condition fails: return keep.
NmsReturn ==
    /\ pc = "nms_loop"
    /\ detections = <<>>
    /\ pc' = "nms_done"
    /\ UNCHANGED nmsVars
    /\ UNCHANGED <<iouVars, frameVars, detectVars, contrastVars, ridgeVars, configVars>>

\* The caller applies _apply_nms to the list it returned, same threshold.
NmsReapply ==
    /\ pc = "nms_done"
    /\ pass = 1
    /\ firstOutput' = keep
    /\ nmsInput' = keep
    /\ pass' = 2
    /\ keep' = <<>>
    /\ detections' = <<>>
    /\ pc' = "nms_call"
    /\ UNCHANGED iouThreshold
    /\ UNCHANGED <<iouVars, frameVars, detectVars, contrastVars, ridgeVars, configVars>>

\* Every list of at most MaxLen detections over NmsBoxes and Confidences.
NmsInputs ==
    UNION {[1..n -> NmsBoxes \X Confidences] : n \in 0..MaxLen}

InitNms ==
    /\ pc = "nms_call"
    /\ \E f \in NmsInputs :
          nmsInput = [i \in 1..Len(f) |-> Detection(f[i][1], f[i][2], i)]
    /\ iouThreshold \in IouThresholds
    /\ detections = <<>>
    /\ keep = <<>>
    /\ pass = 1
    /\ firstOutput = <<>>
    /\ IdleIou /\ IdleFrame /\ IdleDetect /\ IdleContrast /\ IdleRidge /\ IdleConfig

NextNms == NmsEnter \/ NmsIterate \/ NmsReturn \/ NmsReapply

SpecNms == InitNms /\ [][NextNms]_vars

----------------------------------------------------------------------------
(* Properties of _apply_nms, checked under SpecNms.                        *)

NmsDone == pc = "nms_done"

\* Position of a detection in the list passed in (ids make entries distinct).
IndexIn(s, d) == CHOOSE k \in 1..Len(s) : s[k] = d

InKeep(d) == \E k \in 1..Len(keep) : keep[k] = d

\* (a) of C2: kept detections overlap pairwise by less than the threshold.
KeptPairwiseBelow ==
    \A i, j \in 1..Len(keep) :
        i # j => RatLess(CalculateIou(keep[i].box, keep[j].box), iouThreshold)

\* (b) of C2: a dropped detection overlaps a kept one of confidence >= its own.
DroppedAreCovered ==
    \A n \in 1..Len(nmsInput) :
        ~InKeep(nmsInput[n]) =>
            \E k \in 1..Len(keep) :
                /\ keep[k].confidence >= nmsInput[n].confidence
                /\ ~RatLess(CalculateIou(keep[k].box, nmsInput[n].box), iouThreshold)

\* C2: greedy NMS suppression criterion. When _apply_nms has returned, (a) any
\* two distinct kept detections have IoU < iou_threshold and (b) every input
\* detection that was not kept has IoU >= iou_threshold with a kept detection
\* of confidence >= its own; and the loop terminates: while it runs a step is
\* always possible and every iteration shortens the list `detections`.
C2_GreedyNms ==
    /\ [](NmsDone => KeptPairwiseBelow /\ DroppedAreCovered)
    /\ [](pc = "nms_loop" => ENABLED (NmsIterate \/ NmsReturn))
    /\ [][(pc = "nms_loop" /\ detections # <<>>)
            => Len(detections') < Len(detections)]_vars

\* A return with two kept detections and one suppressed, on the first pass.
C2_Witness ==
    /\ NmsDone /\ pass = 1
    /\ Len(keep) = 2 /\ Len(nmsInput) = 3
    /\ \E i, j \in 1..3 : RatEq(CalculateIou(nmsInput[i].box, nmsInput[j].box),
                                iouThreshold)

\* C3: NMS idempotence. _apply_nms applied to its own output with the same
\* threshold returns the same detections in the same order.
C3_Idempotent == (NmsDone /\ pass = 2) => keep = firstOutput

\* A second pass over an output of two tied detections, after a suppression.
C3_Witness ==
    /\ NmsDone /\ pass = 2
    /\ Len(firstOutput) >= 2
    /\ firstOutput[1].confidence = firstOutput[2].confidence
    /\ firstOutput[1].id > 1

\* C4: NMS count monotonicity. _apply_nms returns no more detections than it
\* was given, and none when given none.
C4_CountMonotone ==
    NmsDone => /\ Len(keep) <= Len(nmsInput)
               /\ (nmsInput = <<>> => keep = <<>>)

\* A return that dropped a detection of a non-empty list.
C4_Witness == NmsDone /\ pass = 1 /\ Len(keep) >= 1 /\ Len(keep) < Len(nmsInput)

\* C5: NMS output ordering. The kept detections are in non-increasing
\* confidence order, and kept detections of equal confidence are in the order
\* they had in the list passed in.
C5_Ordered ==
    NmsDone =>
        \A i, j \in 1..Len(keep) :
            i < j =>
                /\ keep[i].confidence >= keep[j].confidence
                /\ keep[i].confidence = keep[j].confidence
                     => IndexIn(nmsInput, keep[i]) < IndexIn(nmsInput, keep[j])

\* A return where a tie was kept, from an input that was not sorted.
C5_Witness ==
    /\ NmsDone /\ pass = 1 /\ Len(keep) = 2 /\ Len(nmsInput) = 3
    /\ keep[1].confidence = keep[2].confidence
    /\ nmsInput[1].confidence < nmsInput[2].confidence

----------------------------------------------------------------------------
(* A call of _calculate_iou on a pair of boxes.                            *)

IouCall ==
    /\ pc = "iou_call"
    /\ iouResult' = CalculateIou(box1, box2)
    /\ pc' = "iou_done"
    /\ UNCHANGED <<box1, box2>>
    /\ UNCHANGED <<nmsVars, frameVars, detectVars, contrastVars, ridgeVars, configVars>>

InitIou ==
    /\ pc = "iou_call"
    /\ box1 \in Boxes
    /\ box2 \in Boxes
    /\ iouResult = None
    /\ IdleNms /\ IdleFrame /\ IdleDetect /\ IdleContrast /\ IdleRidge /\ IdleConfig

NextIou == IouCall

SpecIou == InitIou /\ [][NextIou]_vars

----------------------------------------------------------------------------
(* Properties of _calculate_iou, checked under SpecIou.                    *)

\* The unit cells a box covers.
Cells(b) == {<<i, j>> : i \in b[1]..(b[1] + b[3] - 1), j \in b[2]..(b[2] + b[4] - 1)}

PositiveBox(b) == b[3] > 0 /\ b[4] > 0

\* C6: IoU correctness. For boxes with w, h > 0: the IoU of a box with itself
\* is 1.0, the IoU of two boxes that share no area (touching boxes included)
\* is 0.0, and the IoU of a pair does not depend on the order of the two.
C6_IouCorrect ==
    (pc = "iou_done" /\ PositiveBox(box1) /\ PositiveBox(box2)) =>
        /\ box1 = box2 => iouResult[1] = iouResult[2]
        /\ Cells(box1) \cap Cells(box2) = {} => iouResult[1] = 0
        /\ RatEq(iouResult, CalculateIou(box2, box1))

\* A call on two different boxes of different areas that overlap in part.
C6_Witness ==
    /\ pc = "iou_done"
    /\ box1[3] * box1[4] # box2[3] * box2[4]
    /\ Cells(box1) \cap Cells(box2) # {}
    /\ Cells(box1) \ Cells(box2) # {}
    /\ Cells(box2) \ Cells(box1) # {}
    /\ iouResult[1] > 0 /\ iouResult[1] < iouResult[2]

\* C14: IoU is total and bounded. For every pair of boxes, zero-area boxes
\* included, _calculate_iou divides by no zero, returns 0 when the boxes share
\* no area (an intersection dimension is non-positive, or the union is 0),
\* returns intersection / (area1 + area2 - intersection) otherwise, and the
\* result lies in [0, 1].
C14_IouTotalBounded ==
    pc = "iou_done" =>
        LET inter == Cardinality(Cells(box1) \cap Cells(box2))
            union == Cardinality(Cells(box1) \cup Cells(box2))
        IN  /\ iouResult[2] > 0
            /\ 0 <= iouResult[1] /\ iouResult[1] <= iouResult[2]
            /\ IF inter = 0 THEN iouResult[1] = 0
                            ELSE RatEq(iouResult, <<inter, union>>)

\* A call on a zero-area box and a box that contains its position, and a
\* result of 0.
C14_Witness ==
    /\ pc = "iou_done"
    /\ box1[3] = 0 /\ box1[4] > 0
    /\ PositiveBox(box2) /\ box2[1] <= box1[1] /\ box1[1] < box2[1] + box2[3]
    /\ box1[2] = box2[2]
    /\ iouResult = <<0, 1>>

----------------------------------------------------------------------------
(* VeinProcessor.process_frame                                             *)

\* A frame or an intermediate buffer: its numpy shape, <<h, w>> or
\* <<h, w, c>>, and its pixels, given by the operations applied so far to the
\* pixels of the frame passed in (<<>>: the pixels of the input).
Buffer(shape, data) == [shape |-> shape, data |-> data]

Frames ==
    {Buffer(<<h, w>>, <<>>) : h \in 0..MaxDim, w \in 0..MaxDim}
    \cup {Buffer(<<h, w, c>>, <<>>) :
            h \in 0..MaxDim, w \in 0..MaxDim, c \in 1..MaxChannels}

\* frame.size
Size(f) == IF Len(f.shape) = 3 THEN f.shape[1] * f.shape[2] * f.shape[3]
           ELSE f.shape[1] * f.shape[2]

\* The cv2 / skimage calls of the pipeline that may raise.
FailPoints ==
    {"clahe", "bilateral", "frangi_scale", "scale_fallback", "hessian_fallback",
     "directional", "tophat", "combine", "contrast", "frangi", "laplacian",
     "cvt_bgr"}

\* The outcome of a stage: a buffer, or an exception; raisedIn collects the
\* calls that have raised so far.
Ok(buf, r) == [ok |-> TRUE, buf |-> buf, raisedIn |-> r]
Raise(r) == [ok |-> FALSE, buf |-> None, raisedIn |-> r]

\* A library call `name` applied to buf, after the outcome so far.
Stage(buf, name, r, fl) ==
    IF name \in fl THEN Raise(r \cup {name})
    ELSE Ok(Buffer(buf.shape, Append(buf.data, name)), r)

\* cv2.cvtColor(frame, cv2.COLOR_BGR2GRAY): 3 or 4 channels, else cv2.error.
CvtColorBgr2Gray(f) ==
    IF f.shape[3] \in {3, 4}
    THEN Ok(Buffer(<<f.shape[1], f.shape[2]>>, Append(f.data, "gray")), {})
    ELSE Raise({"cvt_gray"})

\* cv2.cvtColor(gray, cv2.COLOR_GRAY2BGR): three equal channels.
CvtColorGray2Bgr(g, r, fl) ==
    IF "cvt_bgr" \in fl THEN Raise(r \cup {"cvt_bgr"})
    ELSE Ok(Buffer(<<g.shape[1], g.shape[2], 3>>, Append(g.data, "bgr")), r)

\* _hessian_vessel_enhancement: frangi per scale, the per-scale fallback when
\* it raises, and the Laplacian fallback when scikit-image is missing or the
\* per-scale fallback raises too.  Only the last can raise to the caller.
HessianVesselEnhancement(image, sk, fl) ==
    IF sk /\ "frangi_scale" \notin fl
    THEN Ok(Buffer(image.shape, Append(image.data, "vessel_frangi")), {})
    ELSE IF sk /\ "scale_fallback" \notin fl
    THEN Ok(Buffer(image.shape, Append(image.data, "vessel_scale_fallback")),
            {"frangi_scale"})
    ELSE Stage(image, "hessian_fallback",
               IF sk THEN {"frangi_scale", "scale_fallback"} ELSE {}, fl)

\* The body of the try block of _apply_advanced_vein_enhancement.
AdvancedBody(g, sk, fl) ==
    LET h == HessianVesselEnhancement(g, sk, fl)
        d == IF h.ok THEN Stage(h.buf, "directional", h.raisedIn, fl) ELSE h
        t == IF d.ok THEN Stage(d.buf, "tophat", d.raisedIn, fl) ELSE d
    IN  IF t.ok THEN Stage(t.buf, "combine", t.raisedIn, fl) ELSE t

\* _apply_advanced_vein_enhancement without its try/except.
AdvancedWithoutHandler(g, sk, fl) == AdvancedBody(g, sk, fl)

\* _apply_advanced_vein_enhancement: an exception in the body is caught and
\* the buffer passed in is returned.
ApplyAdvancedVeinEnhancement(g, sk, fl) ==
    LET b == AdvancedBody(g, sk, fl)
    IN  IF b.ok THEN b ELSE Ok(g, b.raisedIn)

\* Lines 72-88: the Frangi blend, or the Laplacian blend when scikit-image is
\* missing or frangi raises.
RidgeBlend(g, r, sk, fl) ==
    IF sk /\ "frangi" \notin fl
    THEN Ok(Buffer(g.shape, Append(g.data, "ridge_blend")), r)
    ELSE Stage(g, "laplacian", IF sk THEN r \cup {"frangi"} ELSE r, fl)

\* What process_frame returns: no exception leaves it.
Return(value, r) == [raised |-> FALSE, value |-> value, raisedIn |-> r]

FilterParameters == [clahe : BOOLEAN, bilateral : BOOLEAN, contrast : BOOLEAN]

\* VeinProcessor(): the 'enabled' flags are read from the configuration;
\* SKIMAGE_AVAILABLE was set when the module was imported.
ConstructProcessor ==
    /\ pc = "frame_start"
    /\ params' \in FilterParameters
    /\ skimage' \in BOOLEAN
    /\ pc' = "frame_ready"
    /\ UNCHANGED <<frame, fails, gray, raisedIn, enhanced>>
    /\ UNCHANGED <<nmsVars, iouVars, detectVars, contrastVars, ridgeVars, configVars>>

\* process_frame(frame) is called; the calls in fl will raise during it.
ProcessFrameCall ==
    /\ pc = "frame_ready"
    /\ frame' \in Frames \cup {NoFrame}
    /\ fails' \in {x \in SUBSET FailPoints : Cardinality(x) <= MaxFails}
    /\ pc' = "frame_gray"
    /\ UNCHANGED <<params, skimage, gray, raisedIn, enhanced>>
    /\ UNCHANGED <<nmsVars, iouVars, detectVars, contrastVars, ridgeVars, configVars>>

\* Inside the try block: the stage whose outcome is o has run.  Its buffer
\* becomes gray and the pipeline goes on, or its exception reaches the
\* handler of lines 98-100, which returns the frame passed in.
Proceed(o, next) ==
    /\ raisedIn' = o.raisedIn
    /\ IF o.ok
       THEN /\ gray' = o.buf
            /\ pc' = next
            /\ UNCHANGED enhanced
       ELSE /\ enhanced' = Return(frame, o.raisedIn)
            /\ pc' = "frame_done"
            /\ UNCHANGED gray
    /\ UNCHANGED <<frame, params, skimage, fails>>
    /\ UNCHANGED <<nmsVars, iouVars, detectVars, contrastVars, ridgeVars, configVars>>

\* Lines 33-44: the early return, then the grayscale conversion or the copy.
StepGray ==
    /\ pc = "frame_gray"
    /\ IF frame = NoFrame \/ Size(frame) = 0
       THEN /\ enhanced' = Return(frame, {})
            /\ pc' = "frame_done"
            /\ UNCHANGED <<frame, params, skimage, fails, gray, raisedIn>>
            /\ UNCHANGED <<nmsVars, iouVars, detectVars, contrastVars, ridgeVars, configVars>>
       ELSE \E o \in {IF Len(frame.shape) = 3 THEN CvtColorBgr2Gray(frame)
                                              ELSE Ok(frame, {})} :
                Proceed(o, "frame_clahe")

\* Lines 46-52.
StepClahe ==
    /\ pc = "frame_clahe"
    /\ \E o \in {IF params.clahe THEN Stage(gray, "clahe", raisedIn, fails)
                                 ELSE Ok(gray, raisedIn)} :
          Proceed(o, "frame_bilateral")

\* Lines 54-60.
StepBilateral ==
    /\ pc = "frame_bilateral"
    /\ \E o \in {IF params.bilateral THEN Stage(gray, "bilateral", raisedIn, fails)
                                     ELSE Ok(gray, raisedIn)} :
          Proceed(o, "frame_advanced")

\* Line 63.
StepAdvanced ==
    /\ pc = "frame_advanced"
    /\ \E a \in {ApplyAdvancedVeinEnhancement(gray, skimage, fails)} :
          Proceed([ok |-> a.ok, buf |-> a.buf,
                   raisedIn |-> raisedIn \cup a.raisedIn], "frame_contrast")

\* Lines 65-70.
StepContrast ==
    /\ pc = "frame_contrast"
    /\ \E o \in {IF params.contrast THEN Stage(gray, "contrast", raisedIn, fails)
                                    ELSE Ok(gray, raisedIn)} :
          Proceed(o, "frame_blend")

\* Lines 72-88.
StepRidgeBlend ==
    /\ pc = "frame_blend"
    /\ \E o \in {RidgeBlend(gray, raisedIn, skimage, fails)} :
          Proceed(o, "frame_restore")

\* Lines 90-96: back to BGR for a 3-D frame, and the return.
StepRestore ==
    /\ pc = "frame_restore"
    /\ \E o \in {IF Len(frame.shape) = 3
                 THEN CvtColorGray2Bgr(gray, raisedIn, fails)
                 ELSE Ok(gray, raisedIn)} :
          /\ enhanced' = Return(IF o.ok THEN o.buf ELSE frame, o.raisedIn)
          /\ raisedIn' = o.raisedIn
    /\ pc' = "frame_done"
    /\ UNCHANGED <<frame, params, skimage, fails, gray>>
    /\ UNCHANGED <<nmsVars, iouVars, detectVars, contrastVars, ridgeVars, configVars>>

\* The caller takes the frame returned; the next frame can be passed in.
FrameResume ==
    /\ pc = "frame_done"
    /\ frame' = NoFrame
    /\ fails' = {}
    /\ gray' = NoFrame
    /\ raisedIn' = {}
    /\ enhanced' = None
    /\ pc' = "frame_ready"
    /\ UNCHANGED <<params, skimage>>
    /\ UNCHANGED <<nmsVars, iouVars, detectVars, contrastVars, ridgeVars, configVars>>

InitFrame ==
    /\ pc = "frame_start"
    /\ IdleFrame
    /\ IdleNms /\ IdleIou /\ IdleDetect /\ IdleContrast /\ IdleRidge /\ IdleConfig

NextFrame ==
    \/ ConstructProcessor
    \/ ProcessFrameCall
    \/ StepGray
    \/ StepClahe
    \/ StepBilateral
    \/ StepAdvanced
    \/ StepContrast
    \/ StepRidgeBlend
    \/ StepRestore
    \/ FrameResume

SpecFrame == InitFrame /\ [][NextFrame]_vars

----------------------------------------------------------------------------
(* Properties of process_frame, checked under SpecFrame.                   *)

FrameDone == pc = "frame_done"

\* C7: shape preservation. For every frame passed in, 2-D or 3-D with any
\* channel count, and on every path through process_frame, the frame returned
\* has the height, width and channel count of the frame passed in.
C7_ShapePreserved ==
    (FrameDone /\ frame # NoFrame) =>
        /\ ~enhanced.raised
        /\ enhanced.value.shape = frame.shape

\* The calls whose exception leaves a sub-stage of steps 2-6: a frangi failure
\* is replaced inside its stage by that stage's own fallback.
SubStageFailures ==
    {"clahe", "bilateral", "hessian_fallback", "directional", "tophat",
     "combine", "contrast", "laplacian"}

\* The failures of step 4, raised inside _apply_advanced_vein_enhancement.
Step4Failures == {"hessian_fallback", "directional", "tophat", "combine"}

\* The failures raised in process_frame itself, outside step 4.
OuterFailures ==
    {"cvt_gray", "clahe", "bilateral", "contrast", "laplacian", "cvt_bgr"}

\* What step 4 writes to the pixels.
Step4Ops ==
    {"vessel_frangi", "vessel_scale_fallback", "hessian_fallback",
     "directional", "tophat", "combine"}

Applied(buf) == {buf.data[i] : i \in 1..Len(buf.data)}

PlainGray(f) ==
    IF Len(f.shape) = 3
    THEN Buffer(<<f.shape[1], f.shape[2], 3>>, <<"gray", "bgr">>)
    ELSE Buffer(f.shape, <<>>)

\* C9: with every 'enabled' flag of FilterParameters off, and no call raising,
\* process_frame returns the plain grayscale conversion of the frame: no
\* filter stage touches the pixels.
C9_AllDisabledIsGray ==
    (/\ FrameDone /\ frame # NoFrame /\ Size(frame) > 0
     /\ ~params.clahe /\ ~params.bilateral /\ ~params.contrast
     /\ enhanced.raisedIn = {})
        => enhanced.value = PlainGray(frame)

----------------------------------------------------------------------------
(* VeinDetector, initialize_detector and detect_veins                      *)

\* What the model can return for a box: corners in 1/CoordScale pixels, a
\* confidence level and a class id.  The model is outside the repository: any
\* list of these may come back, whatever `conf` it was called with.
RawBoxes ==
    {[xyxy |-> <<x1, 0, x1 + side, side>>, conf |-> c, cls |-> k] :
        x1 \in 0..MaxCoord, side \in 1..MaxSide, c \in Confidences, k \in {0, 1}}

RawLists == UNION {[1..n -> RawBoxes] : n \in 0..MaxRaw}

\* int() of a float given in 1/CoordScale units: truncation towards zero.
IntTrunc(n) == IF n >= 0 THEN n \div CoordScale ELSE -((-n) \div CoordScale)

\* Corner form to [x, y, w, h], line 407.
ToXywh(b) ==
    <<IntTrunc(b[1]), IntTrunc(b[2]), IntTrunc(b[3] - b[1]), IntTrunc(b[4] - b[2])>>

\* The name of a class id, lines 417-420.
ClassName(names, id) == IF id < Len(names) THEN names[id + 1] ELSE "unknown"

\* A call that returned the four containers, and a call that raised.
Returned(boxes, confidences, class_ids, class_names) ==
    [raised |-> FALSE, boxes |-> boxes, confidences |-> confidences,
     class_ids |-> class_ids, class_names |-> class_names]
Raised == [raised |-> TRUE, boxes |-> <<>>, confidences |-> <<>>,
           class_ids |-> <<>>, class_names |-> <<>>]
Empty4 == Returned(<<>>, <<>>, <<>>, <<>>)

\* What the model and the preprocessing do during one detection call.
ModelOutcomes ==
    {[preprocRaises |-> TRUE, modelRaises |-> FALSE, hasBoxes |-> FALSE, boxes |-> <<>>],
     [preprocRaises |-> FALSE, modelRaises |-> TRUE, hasBoxes |-> FALSE, boxes |-> <<>>],
     [preprocRaises |-> FALSE, modelRaises |-> FALSE, hasBoxes |-> FALSE, boxes |-> <<>>]}
    \cup {[preprocRaises |-> FALSE, modelRaises |-> FALSE, hasBoxes |-> TRUE, boxes |-> l] :
            l \in RawLists}

\* The model is never invoked.
NotInvoked ==
    [preprocRaises |-> FALSE, modelRaises |-> FALSE, hasBoxes |-> FALSE, boxes |-> <<>>]

\* conf_threshold, 0 standing for None: the configured value when None.
ResolvedThreshold(conf_threshold, cfg) ==
    IF conf_threshold = 0 THEN cfg ELSE conf_threshold

\* VeinDetector.detect: the model is called with conf = the resolved
\* threshold, and every box it returns is converted and returned.
Detect(det, conf_threshold, env, cfg) ==
    IF ~det.model THEN Empty4
    ELSE IF env.preprocRaises \/ env.modelRaises THEN Empty4
    ELSE IF ~env.hasBoxes THEN Empty4
    ELSE Returned([i \in 1..Len(env.boxes) |-> ToXywh(env.boxes[i].xyxy)],
                  [i \in 1..Len(env.boxes) |-> env.boxes[i].conf],
                  [i \in 1..Len(env.boxes) |-> env.boxes[i].cls],
                  [i \in 1..Len(env.boxes) |->
                      ClassName(det.class_names, env.boxes[i].cls)])

\* detect_veins without the `_detector is None` check: None has no detect.
DetectVeinsWithoutInitCheck(det, conf_threshold, env, cfg) ==
    IF ~det.exists THEN Raised
    ELSE Detect(det, ResolvedThreshold(conf_threshold, cfg), env, cfg)

\* detect_veins
DetectVeins(det, conf_threshold, env, cfg) ==
    IF ~det.exists THEN Empty4
    ELSE Detect(det, ResolvedThreshold(conf_threshold, cfg), env, cfg)

\* load_model: the model is set when the file exists and YOLO() loads it.
ModelFiles == {"missing", "unloadable", "valid"}
LoadModel(modelFile) == modelFile = "valid"

\* load_classes: the non-empty lines of the file, ["vein"] when the file is
\* missing or cannot be read.
ClassFiles == {"missing", "unreadable", "empty", "one", "two"}
LoadClasses(classFile) ==
    CASE classFile = "empty" -> <<>>
      [] classFile = "two" -> <<"vein", "artery">>
      [] OTHER -> <<"vein">>

\* initialize_detector: a new VeinDetector replaces the global one.
InitializeDetector ==
    /\ pc = "idle"
    /\ \E modelFile \in ModelFiles, classFile \in ClassFiles :
          /\ detector' = [exists |-> TRUE, model |-> LoadModel(modelFile),
                          class_names |-> LoadClasses(classFile)]
          /\ ret' = [raised |-> FALSE, value |-> LoadModel(modelFile)]
    /\ call' = NoCall
    /\ pc' = "init_done"
    /\ UNCHANGED confidenceConfig
    /\ UNCHANGED <<nmsVars, iouVars, frameVars, contrastVars, ridgeVars, configVars>>

\* The model outcomes possible for a detector: none without a loaded model.
OutcomesFor(det) == IF det.model THEN ModelOutcomes ELSE {NotInvoked}

\* A call of detect_veins(frame, conf_threshold).
DetectVeinsCall ==
    /\ pc = "idle"
    /\ \E ct \in 0..MaxConf, env \in OutcomesFor(detector) :
          /\ call' = [conf_threshold |-> ct, env |-> env]
          /\ ret' = DetectVeins(detector, ct, env, confidenceConfig)
    /\ pc' = "detect_done"
    /\ UNCHANGED <<detector, confidenceConfig>>
    /\ UNCHANGED <<nmsVars, iouVars, frameVars, contrastVars, ridgeVars, configVars>>

\* A call of detect(frame, conf_threshold) on the constructed detector.
DetectCall ==
    /\ pc = "idle"
    /\ detector.exists
    /\ \E ct \in 0..MaxConf, env \in OutcomesFor(detector) :
          /\ call' = [conf_threshold |-> ct, env |-> env]
          /\ ret' = Detect(detector, ResolvedThreshold(ct, confidenceConfig),
                           env, confidenceConfig)
    /\ pc' = "detect_done"
    /\ UNCHANGED <<detector, confidenceConfig>>
    /\ UNCHANGED <<nmsVars, iouVars, frameVars, contrastVars, ridgeVars, configVars>>

\* The caller takes the result; the next call can start.
Resume ==
    /\ pc \in {"init_done", "detect_done"}
    /\ pc' = "idle"
    /\ call' = NoCall
    /\ ret' = None
    /\ UNCHANGED <<detector, confidenceConfig>>
    /\ UNCHANGED <<nmsVars, iouVars, frameVars, contrastVars, ridgeVars, configVars>>

InitDetect ==
    /\ pc = "idle"
    /\ detector = NoDetector
    /\ confidenceConfig \in Confidences
    /\ call = NoCall
    /\ ret = None
    /\ IdleNms /\ IdleIou /\ IdleFrame /\ IdleContrast /\ IdleRidge /\ IdleConfig

NextDetect == InitializeDetector \/ DetectVeinsCall \/ DetectCall \/ Resume

SpecDetect == InitDetect /\ [][NextDetect]_vars

----------------------------------------------------------------------------
(* Properties of the detection calls, checked under SpecDetect.            *)

DetectDone == pc = "detect_done"

\* The threshold the running call resolved.
ThresholdOfCall == ResolvedThreshold(call.conf_threshold, confidenceConfig)

\* C1: confidence gate. Whatever boxes the model returned, a detection call
\* returns no detection whose confidence is below the confidence threshold
\* of the call.
C1_ConfidenceGate ==
    DetectDone =>
        \A i \in 1..Len(ret.confidences) : ret.confidences[i] >= ThresholdOfCall

\* iou_threshold=0.4, the default of _apply_nms.
DefaultIouThreshold == <<2, 5>>

\* C11: pipeline ordering. In every detection call that succeeds, the boxes
\* of the model have passed the confidence gate and the greedy NMS before they
\* are returned: no two detections returned have IoU >= the default
\* iou_threshold 0.4.
C11_ResultDeduplicated ==
    (DetectDone /\ ~ret.raised) =>
        \A i, j \in 1..Len(ret.boxes) :
            i # j => RatLess(CalculateIou(ret.boxes[i], ret.boxes[j]),
                             DefaultIouThreshold)

\* C16: detection box invariant. Every box the model returns has x2 > x1 and
\* y2 > y1 (boxes narrower than a pixel included), and every detection made
\* from one by the corner-form conversion has width > 0 and height > 0.
C16_PositiveExtent ==
    DetectDone =>
        \A i \in 1..Len(ret.boxes) :
            /\ call.env.boxes[i].xyxy[3] > call.env.boxes[i].xyxy[1]
            /\ call.env.boxes[i].xyxy[4] > call.env.boxes[i].xyxy[2]
            /\ ret.boxes[i][3] > 0
            /\ ret.boxes[i][4] > 0

\* The detector states and calls C10 is about: no detector, no model, or a
\* preprocessing or model invocation that raises.
FailingCall ==
    \/ ~detector.exists
    \/ ~detector.model
    \/ call.env.preprocRaises
    \/ call.env.modelRaises

\* C10: detection calls never fail. With no detector initialized, with a
\* detector whose model file was missing or unloadable, and when the
\* preprocessing or the model invocation raises, a detection call raises
\* nothing and returns four empty containers.
C10_DetectionNeverFails ==
    (DetectDone /\ FailingCall) => ret = Empty4

\* A detection call on a loaded detector whose model invocation raised.
C10_Witness ==
    /\ DetectDone
    /\ detector.exists /\ detector.model
    /\ call.env.modelRaises
    /\ ret = Empty4

----------------------------------------------------------------------------
(* The contrast stage of process_frame, pixel by pixel:                    *)
(*     gray = cv2.convertScaleAbs(gray, alpha=alpha, beta=beta)            *)

\* The configurations of the stage: alpha = alpha / AlphaScale.
ContrastConfigs ==
    [enabled : BOOLEAN, alpha : (0 - MaxAlpha)..MaxAlpha,
     beta : (0 - MaxBeta)..MaxBeta]

Abs(n) == IF n >= 0 THEN n ELSE 0 - n

\* cvRound of n / d for n >= 0, d > 0: to the nearest integer, halves to the
\* even one.
RoundHalfEven(n, d) ==
    LET q == n \div d
        r == n % d
    IN  IF 2 * r < d THEN q
        ELSE IF 2 * r > d THEN q + 1
        ELSE IF q % 2 = 0 THEN q ELSE q + 1

\* alpha * v + beta as the numerator of a fraction over AlphaScale.
Scaled(v, cfg) == cfg.alpha * v + cfg.beta * AlphaScale

\* cv2.convertScaleAbs on one pixel: saturate_cast<uchar>(|alpha * v + beta|).
ConvertScaleAbs(v, cfg) ==
    Min(RoundHalfEven(Abs(Scaled(v, cfg)), AlphaScale), MaxPixel)

\* Lines 65-70 for one pixel.
ContrastStage ==
    /\ pc = "contrast_call"
    /\ pc' = "contrast_done"
    /\ dst' = IF contrast_config.enabled
              THEN ConvertScaleAbs(pixel, contrast_config)
              ELSE pixel
    /\ UNCHANGED <<pixel, contrast_config>>
    /\ UNCHANGED <<nmsVars, iouVars, frameVars, detectVars, ridgeVars, configVars>>

InitContrast ==
    /\ pc = "contrast_call"
    /\ pixel \in 0..MaxPixel
    /\ contrast_config \in ContrastConfigs
    /\ dst = None
    /\ IdleNms /\ IdleIou /\ IdleFrame /\ IdleDetect /\ IdleRidge /\ IdleConfig

NextContrast == ContrastStage

SpecContrast == InitContrast /\ [][NextContrast]_vars

\* clip(x, 0, 255) of x = n / AlphaScale as an 8-bit value.
Clip(n) == IF n < 0 THEN 0 ELSE Min(RoundHalfEven(n, AlphaScale), MaxPixel)

\* C15: global contrast stretch. With the stage enabled, for every 8-bit
\* value v and every alpha and beta, negative ones included, the pixel after
\* the stage is clip(alpha * v + beta, 0, 255); a value below 0 gives 0.
C15_ContrastClips ==
    (pc = "contrast_done" /\ contrast_config.enabled) =>
        dst = Clip(Scaled(pixel, contrast_config))

----------------------------------------------------------------------------
(* The multi-scale response of _hessian_vessel_enhancement with            *)
(* SKIMAGE_AVAILABLE, as numbers: per sigma, the response of frangi or,    *)
(* when frangi raises, the normalised Laplacian; their running maximum;    *)
(* and the cast of 255 times it to uint8.                                  *)
(*                                                                         *)
(* A float is a rational <<n, d>> with d > 0, or one of Inf and NaN.       *)

Inf == <<1, 0>>
NaN == <<0, 0>>

Pixels == 1..MaxArea

\* What frangi returns at one sigma: a vesselness in [0, 1] per pixel.
FrangiResponses == [Pixels -> {<<k, FrangiScale>> : k \in 0..FrangiScale}]

\* What cv2.Laplacian(blurred, cv2.CV_64F, ksize=3) returns at one sigma.
Laplacians == [Pixels -> (0 - MaxLap)..MaxLap]

\* The outcome of one iteration of the loop over sigma_values: frangi returns
\* `frangi`, or it raises and the Laplacian of the blurred image is
\* `laplacian`.
ScaleOutcomes ==
    [frangiRaises : {FALSE}, frangi : FrangiResponses,
     laplacian : {[p \in Pixels |-> 0]}]
    \cup
    [frangiRaises : {TRUE}, frangi : {[p \in Pixels |-> <<0, 1>>]},
     laplacian : Laplacians]

\* vessel_response.max() of the signed Laplacian.
ArrayMax(a) == CHOOSE m \in {a[p] : p \in Pixels} : \A q \in Pixels : a[q] <= m

\* a / m in floating point for a >= 0: division by zero gives inf or nan and
\* raises nothing.
Divide(a, m) ==
    IF m > 0 THEN <<a, m>>
    ELSE IF m < 0 THEN <<0 - a, 0 - m>>
    ELSE IF a = 0 THEN NaN ELSE Inf

\* np.abs(vessel_response) / vessel_response.max()
Normalized(lap) == [p \in Pixels |-> Divide(Abs(lap[p]), ArrayMax(lap))]

\* np.maximum on two floats: nan if either is nan.
Maximum(x, y) ==
    IF x = NaN \/ y = NaN THEN NaN
    ELSE IF x = Inf \/ y = Inf THEN Inf
    ELSE IF RatLess(x, y) THEN y ELSE x

\* vessel_response of one iteration.
VesselResponse(o) ==
    IF o.frangiRaises THEN Normalized(o.laplacian) ELSE o.frangi

\* vessel_enhanced after the first n iterations.
RECURSIVE VesselEnhanced(_, _)
VesselEnhanced(outcomes, n) ==
    IF n = 0 THEN [p \in Pixels |-> <<0, 1>>]
    ELSE [p \in Pixels |->
            Maximum(VesselEnhanced(outcomes, n - 1)[p],
                    VesselResponse(outcomes[n])[p])]

\* The casts of a float outside 0..255 to uint8 are undefined in C; the
\* builds differ: through a 32-bit integer, which wraps modulo 256 and gives
\* 0 for inf and nan, or saturating, which gives 255 for inf and 0 for nan.
Builds == {"wrap", "saturate"}

\* (x * 255).astype(np.uint8) for x >= 0.
AsUint8(x, b) ==
    IF x = NaN THEN 0
    ELSE IF x = Inf THEN (IF b = "wrap" THEN 0 ELSE MaxPixel)
    ELSE LET t == (x[1] * MaxPixel) \div x[2]
         IN  IF t <= MaxPixel THEN t
             ELSE IF b = "wrap" THEN t % (MaxPixel + 1) ELSE MaxPixel

\* The array returned at line 146 for the first n sigma values.
HessianResponse(outcomes, n, b) ==
    [p \in Pixels |-> AsUint8(VesselEnhanced(outcomes, n)[p], b)]

\* The caller has an image and sigma_values = S followed by one more sigma.
RidgeInputs ==
    /\ pc = "ridge_idle"
    /\ pc' = "ridge_first"
    /\ \E n \in 1..(MaxSigmas + 1) :
           scaleOutcomes' \in [1..n -> ScaleOutcomes]
    /\ ridgeS' = <<>>
    /\ ridgeExtended' = <<>>
    /\ UNCHANGED build
    /\ UNCHANGED <<nmsVars, iouVars, frameVars, detectVars, contrastVars, configVars>>

\* _hessian_vessel_enhancement with sigma_values = S.
HessianForS ==
    /\ pc = "ridge_first"
    /\ pc' = "ridge_second"
    /\ ridgeS' = HessianResponse(scaleOutcomes, Len(scaleOutcomes) - 1, build)
    /\ UNCHANGED <<scaleOutcomes, build, ridgeExtended>>
    /\ UNCHANGED <<nmsVars, iouVars, frameVars, detectVars, contrastVars, configVars>>

\* _hessian_vessel_enhancement with sigma_values = S and the extra sigma.
HessianForExtended ==
    /\ pc = "ridge_second"
    /\ pc' = "ridge_done"
    /\ ridgeExtended' = HessianResponse(scaleOutcomes, Len(scaleOutcomes), build)
    /\ UNCHANGED <<scaleOutcomes, build, ridgeS>>
    /\ UNCHANGED <<nmsVars, iouVars, frameVars, detectVars, contrastVars, configVars>>

\* The caller has compared the two responses.
RidgeResume ==
    /\ pc = "ridge_done"
    /\ pc' = "ridge_idle"
    /\ scaleOutcomes' = <<>>
    /\ ridgeS' = <<>>
    /\ ridgeExtended' = <<>>
    /\ UNCHANGED build
    /\ UNCHANGED <<nmsVars, iouVars, frameVars, detectVars, contrastVars, configVars>>

InitRidge ==
    /\ pc = "ridge_idle"
    /\ scaleOutcomes = <<>>
    /\ build \in Builds
    /\ ridgeS = <<>>
    /\ ridgeExtended = <<>>
    /\ IdleNms /\ IdleIou /\ IdleFrame /\ IdleDetect /\ IdleContrast /\ IdleConfig

NextRidge == RidgeInputs \/ HessianForS \/ HessianForExtended \/ RidgeResume

SpecRidge == InitRidge /\ [][NextRidge]_vars

\* C12: the multi-scale max-projection is monotone. For every image, sigma
\* set S and extra sigma s, the 8-bit response for S with s is >= the response
\* for S at every pixel, whether frangi answers or the per-scale fallback
\* does, the cast to 8 bits wrapping modulo 256.
C12_MaxProjectionMonotone ==
    (pc = "ridge_done" /\ build = "wrap") =>
        \A p \in Pixels : ridgeExtended[p] >= ridgeS[p]

----------------------------------------------------------------------------
(* config_manager.py and VeinProcessor.__init__.                           *)
(*                                                                         *)
(* The configuration is a tree of dicts.  A dict is an object: heap maps   *)
(* the identity of each dict alive to its content, a function from keys to *)
(* values, and the value of a key that holds a dict is the identity of     *)
(* that dict.  Of the tree, the path image_processing.clahe.enabled is     *)
(* followed.                                                               *)

\* None where a dict is expected.
NoDict == 0

\* {}
EmptyDict == <<>>

\* d[k] = v
DictPut(d, k, v) ==
    [x \in (DOMAIN d) \cup {k} |-> IF x = k THEN v ELSE d[x]]

\* The heap with the dict of identity i having the content d.
HeapPut(h, i, d) ==
    [x \in (DOMAIN h) \cup {i} |-> IF x = i THEN d ELSE h[x]]

\* The identity of a newly created dict.
FreshId(h) == CHOOSE i \in 1..(Cardinality(DOMAIN h) + 1) : i \notin DOMAIN h

\* The keys whose values are dicts.
RefKeys == {"image_processing", "clahe"}

\* The dicts referenced from the dicts of R, and R.
Refs(h, R) ==
    R \cup UNION {{h[o][k] : k \in (DOMAIN h[o]) \cap RefKeys} : o \in R}

\* The heap without the dicts that neither the configuration nor a
\* processor references any more.
Collect(h, roots) ==
    [x \in Refs(h, Refs(h, roots \ {NoDict})) |-> h[x]]

\* The loop of ConfigManager.get: value = value[key] for each key; a missing
\* key is the KeyError that returns the default.
RECURSIVE Lookup(_, _, _)
Lookup(h, value, keys) ==
    IF keys = <<>> THEN [found |-> TRUE, value |-> value]
    ELSE IF Head(keys) \in DOMAIN h[value]
         THEN Lookup(h, h[value][Head(keys)], Tail(keys))
         ELSE [found |-> FALSE, value |-> NoDict]

\* ConfigManager.get, without the default.
ConfigGet(h, root, keys) ==
    IF root = NoDict THEN [found |-> FALSE, value |-> NoDict]
    ELSE Lookup(h, root, keys)

\* The navigation and the assignment of ConfigManager.set below the dict
\* obj: missing dicts on the way are created, the last key is assigned in
\* the dict the navigation ends in.
RECURSIVE SetAt(_, _, _, _)
SetAt(h, obj, keys, value) ==
    IF Len(keys) = 1
    THEN HeapPut(h, obj, DictPut(h[obj], keys[1], value))
    ELSE IF keys[1] \in DOMAIN h[obj]
         THEN SetAt(h, h[obj][keys[1]], Tail(keys), value)
         ELSE SetAt(HeapPut(HeapPut(h, FreshId(h), EmptyDict),
                            obj, DictPut(h[obj], keys[1], FreshId(h))),
                    FreshId(h), Tail(keys), value)

\* ConfigManager.set: the heap and _config after it.
ConfigSet(h, root, keys, value) ==
    IF root = NoDict
    THEN [heap |-> SetAt(HeapPut(h, FreshId(h), EmptyDict), FreshId(h),
                         keys, value),
          root |-> FreshId(h)]
    ELSE [heap |-> SetAt(h, root, keys, value), root |-> root]

\* What load_config can assign to _config: None (depth 0, an empty file),
\* {} (depth 1), {image_processing: {}} (2), {image_processing: {clahe: {}}}
\* (3), or {image_processing: {clahe: {enabled: b}}} (4).
LoadOutcomes == [depth : 0..4, enabled : BOOLEAN]

\* _get_default_config(), assigned when the file is missing or unreadable.
DefaultConfig == [depth |-> 4, enabled |-> TRUE]

\* The dicts of a newly loaded tree: the heap and the new _config.
BuildTree(h, o) ==
    IF o.depth = 0 THEN [heap |-> h, root |-> NoDict]
    ELSE
        LET r  == FreshId(h)
            h1 == HeapPut(h, r, EmptyDict)
            n  == FreshId(h1)
            h2 == HeapPut(h1, n, EmptyDict)
        IN  [heap |->
                IF o.depth = 1 THEN h1
                ELSE IF o.depth = 2
                     THEN SetAt(h2, r, <<"image_processing">>, n)
                ELSE IF o.depth = 3
                     THEN SetAt(h2, r, <<"image_processing", "clahe">>, n)
                ELSE SetAt(h1, r, <<"image_processing", "clahe", "enabled">>,
                           o.enabled),
             root |-> r]

\* self.clahe_config.get('enabled', True), as process_frame reads it.
ClaheEnabled(h, clahe_config) ==
    IF "enabled" \in DOMAIN h[clahe_config] THEN h[clahe_config]["enabled"]
    ELSE TRUE

\* The dicts the configuration and the processors hold.
Roots(root, procs) ==
    {root} \cup {procs[i].clahe_config : i \in 1..Len(procs)}

\* VeinProcessor(): self.clahe_config = get_config('image_processing.clahe',
\* {}).  `resolved` records what the processor read at its construction.
VeinProcessorInit ==
    /\ pc = "config"
    /\ Len(processors) < MaxProcs
    /\ \E got \in {ConfigGet(heap, configRoot, <<"image_processing", "clahe">>)} :
       \E h \in {IF got.found THEN heap
                 ELSE HeapPut(heap, FreshId(heap), EmptyDict)} :
       \E c \in {IF got.found THEN got.value ELSE FreshId(heap)} :
           /\ heap' = h
           /\ processors' = Append(processors,
                  [clahe_config |-> c, resolved |-> ClaheEnabled(h, c)])
    /\ UNCHANGED <<pc, configRoot>>
    /\ UNCHANGED <<nmsVars, iouVars, frameVars, detectVars, contrastVars, ridgeVars>>

\* set_config('image_processing.clahe.enabled', b)
SetConfigEnabled ==
    /\ pc = "config"
    /\ \E b \in BOOLEAN :
       \E o \in {ConfigSet(heap, configRoot,
                           <<"image_processing", "clahe", "enabled">>, b)} :
           /\ configRoot' = o.root
           /\ heap' = Collect(o.heap, Roots(o.root, processors))
    /\ UNCHANGED <<pc, processors>>
    /\ UNCHANGED <<nmsVars, iouVars, frameVars, detectVars, contrastVars, ridgeVars>>

\* set_config('image_processing.clahe', {'enabled': b})
SetConfigSection ==
    /\ pc = "config"
    /\ \E b \in BOOLEAN :
       \E h \in {HeapPut(heap, FreshId(heap),
                         DictPut(EmptyDict, "enabled", b))} :
       \E o \in {ConfigSet(h, configRoot, <<"image_processing", "clahe">>,
                           FreshId(heap))} :
           /\ configRoot' = o.root
           /\ heap' = Collect(o.heap, Roots(o.root, processors))
    /\ UNCHANGED <<pc, processors>>
    /\ UNCHANGED <<nmsVars, iouVars, frameVars, detectVars, contrastVars, ridgeVars>>

\* config.load_config(): _config is assigned what the file holds, or the
\* default configuration.
LoadConfig ==
    /\ pc = "config"
    /\ \E f \in LoadOutcomes \cup {DefaultConfig} :
       \E o \in {BuildTree(heap, f)} :
           /\ configRoot' = o.root
           /\ heap' = Collect(o.heap, Roots(o.root, processors))
    /\ UNCHANGED <<pc, processors>>
    /\ UNCHANGED <<nmsVars, iouVars, frameVars, detectVars, contrastVars, ridgeVars>>

\* After `config = ConfigManager()` at import: __init__ has called
\* load_config.
InitConfig ==
    /\ pc = "config"
    /\ processors = <<>>
    /\ \E f \in LoadOutcomes \cup {DefaultConfig} :
           /\ configRoot = BuildTree(<<>>, f).root
           /\ heap = BuildTree(<<>>, f).heap
    /\ IdleNms /\ IdleIou /\ IdleFrame /\ IdleDetect /\ IdleContrast /\ IdleRidge

NextConfig ==
    VeinProcessorInit \/ SetConfigEnabled \/ SetConfigSection \/ LoadConfig

SpecConfig == InitConfig /\ [][NextConfig]_vars

\* C13: FilterParameters are a snapshot. After any sequence of set_config and
\* load_config calls made after its construction, a processor still reads the
\* value it resolved at construction; changed values are seen only by
\* processors constructed later.
C13_ParametersAreSnapshot ==
    \A i \in 1..Len(processors) :
        ClaheEnabled(heap, processors[i].clahe_config) = processors[i].resolved

============================================================================
